---- MODULE Spec2Model ----
(***************************************************************************)
(* Transaction state-transition engine of the dmbc ledger: TxTransfer,     *)
(* TxTradeWithIntermediary and TxExchangeWithIntermediary executed against *)
(* a transactional view (Fork) that holds the wallet table and the         *)
(* transaction status table.                                               *)
(*                                                                         *)
(* Coin and asset quantities are u64 in the code.  They are modelled as    *)
(* unsigned integers of Width bits with the wrapping arithmetic of a       *)
(* release build.                                                          *)
(*                                                                         *)
(* The platform wallet is a dedicated service account: the parties of a    *)
(* transaction (principals, intermediary) are drawn from the other keys.   *)
(* The creator of an asset may be any key, the platform and the parties    *)
(* included.                                                               *)
(***************************************************************************)
EXTENDS Integers, Sequences, FiniteSets, TLC

\* ------------------------------------------------------------------ bounds
\* Number of execute calls in a behaviour.
MaxTxs == 2
\* Bit width standing for the 64 bits of u64.
Width == 5

\* Number of calls of a payment primitive in a behaviour of SpecPayments.
MaxCalls == 1

Modulus == 2 ^ Width

\* ------------------------------------------------------- program constants
TRANSACTION_FEE == 2
PER_ASSET_FEE == 1
\* CurrencyService::get_platfrom_wallet()
PlatformKey == 1
\* Flat transaction fee of the trade / exchange fee calculation.
TradeExchangeTxFee == 1
\* Royalty owed to the creator for each unit of an asset that changes hands.
RoyaltyPerUnit == 1
\* Significand bits of the f64 that split_coins converts through (53 for the
\* 64-bit build, scaled with Width).
MantissaBits == 4

Keys == 1..5
AssetIDs == {1, 2}
Hashes == 1..MaxTxs

\* Keys that act as principals: from/to of a transfer, in both directions.
Principals == {2, 3}
\* The sender of an exchange and the seller of a trade.
Givers == {2}
\* The recipient of an exchange and the buyer of a trade.
Takers == {3}
\* Keys that act as intermediary.
Brokers == {4}

NoWallet == [absent |-> TRUE]
NoSavepoint == [none |-> TRUE]
NoStatus == "None"

FeeStrategies == {"Recipient", "Sender", "RecipientAndSender", "Intermediary"}

\* ------------------------------------------------------------ arithmetic
WrapAdd(a, b) == (a + b) % Modulus
WrapSub(a, b) == (a - b) % Modulus

Min(a, b) == IF a <= b THEN a ELSE b

RECURSIVE SumOver(_, _)
SumOver(f, S) ==
    IF S = {} THEN 0
    ELSE LET x == CHOOSE y \in S : TRUE
         IN  f[x] + SumOver(f, S \ {x})

\* ---------------------------------------------------------------- Wallet
\* An asset bundle (Vec<Asset>) is a function AssetIDs -> units, 0 = not listed.
NoAssets == [a \in AssetIDs |-> 0]

NewWallet(key, balance, assets) ==
    [pub_key |-> key, balance |-> balance, assets |-> assets]

increase(w, coins) == [w EXCEPT !.balance = WrapAdd(w.balance, coins)]

decrease(w, coins) == [w EXCEPT !.balance = WrapSub(w.balance, coins)]

add_assets(w, bundle) ==
    [w EXCEPT !.assets = [a \in AssetIDs |-> WrapAdd(w.assets[a], bundle[a])]]

del_assets(w, bundle) ==
    [w EXCEPT !.assets = [a \in AssetIDs |-> WrapSub(w.assets[a], bundle[a])]]

is_assets_in_wallet(w, bundle) ==
    \A a \in AssetIDs : w.assets[a] >= bundle[a]

\* Asset::count: the number of distinct assets listed.
AssetCount(bundle) == Cardinality({a \in AssetIDs : bundle[a] > 0})

IsEmptyBundle(bundle) == \A a \in AssetIDs : bundle[a] = 0

\* ----------------------------------------------------------- Fork (view)
\* A view is [wallets, tx_status, savepoint].
checkpoint(view) ==
    [view EXCEPT !.savepoint = [wallets |-> view.wallets, tx_status |-> view.tx_status]]

rollback(view) ==
    IF view.savepoint = NoSavepoint THEN view
    ELSE [wallets |-> view.savepoint.wallets,
          tx_status |-> view.savepoint.tx_status,
          savepoint |-> NoSavepoint]

\* schema.wallets().put(key, wallet)
put(view, w) == [view EXCEPT !.wallets[w.pub_key] = w]

\* dmbc WalletSchema::wallet: the stored wallet, an empty one when absent.
wallet(view, key) ==
    IF view.wallets[key] = NoWallet THEN NewWallet(key, 0, NoAssets)
    ELSE view.wallets[key]

\* WalletSchema::create_wallet of the transfer module.
create_wallet(view, key) == wallet(view, key)

set_status(view, hash, status) == [view EXCEPT !.tx_status[hash] = status]

\* -------------------------------------------------- f64 round trip (as f64)
RECURSIVE BitLen(_)
BitLen(n) == IF n = 0 THEN 0 ELSE 1 + BitLen(n \div 2)

\* `coins as f64`: the nearest value with MantissaBits significant bits,
\* ties to even.
ToF64(n) ==
    IF BitLen(n) <= MantissaBits THEN n
    ELSE LET unit == 2 ^ (BitLen(n) - MantissaBits)
             q == n \div unit
             r == n % unit
         IN  IF 2 * r > unit \/ (2 * r = unit /\ q % 2 = 1)
             THEN (q + 1) * unit
             ELSE q * unit

\* `(coins as f64 / 2.0).ceil() as u64`
CeilHalf(coins) == (ToF64(coins) + 1) \div 2

\* ------------------------------------------ exchange_with_intermediary.rs
split_coins(coins) ==
    LET first_half == CeilHalf(coins)
        second_half == WrapSub(coins, first_half)
    IN  <<first_half, second_half>>

\* sufficient_funds with each half checked against its own payer instead of
\* against the smaller of the two balances.
sufficient_funds_own_half(strategy, recipient, sender, intermediary, coins) ==
    CASE strategy = "Recipient" -> recipient.balance >= coins
      [] strategy = "Sender" -> sender.balance >= coins
      [] strategy = "RecipientAndSender" ->
            /\ split_coins(coins)[1] <= recipient.balance
            /\ split_coins(coins)[2] <= sender.balance
      [] strategy = "Intermediary" -> intermediary.balance >= coins

sufficient_funds(strategy, recipient, sender, intermediary, coins) ==
    LET can_pay_both(a, b) ==
            LET min == Min(a, b)
                halves == split_coins(coins)
            IN  halves[1] <= min /\ halves[2] <= min
    IN  CASE strategy = "Recipient" -> recipient.balance >= coins
          [] strategy = "Sender" -> sender.balance >= coins
          [] strategy = "RecipientAndSender" ->
                can_pay_both(recipient.balance, sender.balance)
          [] strategy = "Intermediary" -> intermediary.balance >= coins

\* move_coins with the funds check after the mutation: the payers are
\* debited, the receiver credited and the wallets stored, and only the
\* returned bool says whether the funds sufficed.
move_coins_mutate_then_check(view, strategy, recipient, sender, intermediary, coins_receiver, coins) ==
    LET halves == split_coins(coins)
        r2 == CASE strategy = "Recipient" -> decrease(recipient, coins)
                [] strategy = "RecipientAndSender" -> decrease(recipient, halves[1])
                [] OTHER -> recipient
        s2 == CASE strategy = "Sender" -> decrease(sender, coins)
                [] strategy = "RecipientAndSender" -> decrease(sender, halves[2])
                [] OTHER -> sender
        i2 == CASE strategy = "Intermediary" -> decrease(intermediary, coins)
                [] OTHER -> intermediary
        c2 == increase(coins_receiver, coins)
    IN  [ok |-> sufficient_funds(strategy, recipient, sender, intermediary, coins),
         view |-> put(put(put(put(view, r2), s2), i2), c2),
         recipient |-> r2, sender |-> s2, intermediary |-> i2,
         coins_receiver |-> c2, covered |-> TRUE]

\* The result carries the wallets the code mutates through &mut, the view,
\* the returned bool (ok) and whether every decrease was covered by the
\* balance it was applied to.
move_coins(view, strategy, recipient, sender, intermediary, coins_receiver, coins) ==
    IF ~sufficient_funds(strategy, recipient, sender, intermediary, coins)
    THEN [ok |-> FALSE, view |-> view, recipient |-> recipient, sender |-> sender,
          intermediary |-> intermediary, coins_receiver |-> coins_receiver,
          covered |-> TRUE]
    ELSE LET halves == split_coins(coins)
             r2 == CASE strategy = "Recipient" -> decrease(recipient, coins)
                     [] strategy = "RecipientAndSender" -> decrease(recipient, halves[1])
                     [] OTHER -> recipient
             s2 == CASE strategy = "Sender" -> decrease(sender, coins)
                     [] strategy = "RecipientAndSender" -> decrease(sender, halves[2])
                     [] OTHER -> sender
             i2 == CASE strategy = "Intermediary" -> decrease(intermediary, coins)
                     [] OTHER -> intermediary
             c2 == CASE strategy = "RecipientAndSender" ->
                          increase(increase(coins_receiver, halves[1]), halves[2])
                     [] OTHER -> increase(coins_receiver, coins)
             covered ==
                 CASE strategy = "Recipient" -> recipient.balance >= coins
                   [] strategy = "Sender" -> sender.balance >= coins
                   [] strategy = "RecipientAndSender" ->
                        recipient.balance >= halves[1] /\ sender.balance >= halves[2]
                   [] strategy = "Intermediary" -> intermediary.balance >= coins
         IN  [ok |-> TRUE,
              view |-> put(put(put(put(view, r2), s2), i2), c2),
              recipient |-> r2, sender |-> s2, intermediary |-> i2,
              coins_receiver |-> c2, covered |-> covered]

\* pay_commision that honours the funds check under every strategy: under
\* Intermediary it fails when the intermediary holds less than the commission.
pay_commision_checks_every_strategy(view, strategy, recipient, sender, intermediary, commision) ==
    IF ~sufficient_funds(strategy, recipient, sender, intermediary, commision)
    THEN [ok |-> FALSE, view |-> view, recipient |-> recipient, sender |-> sender,
          intermediary |-> intermediary, covered |-> TRUE]
    ELSE [ok |-> TRUE,
          view |-> put(put(put(view, recipient), sender), intermediary),
          recipient |-> recipient, sender |-> sender, intermediary |-> intermediary,
          covered |-> TRUE]

pay_commision(view, strategy, recipient, sender, intermediary, commision) ==
    LET is_sufficient_funds ==
            sufficient_funds(strategy, recipient, sender, intermediary, commision)
    IN  IF strategy # "Intermediary" /\ ~is_sufficient_funds
        THEN [ok |-> FALSE, view |-> view, recipient |-> recipient, sender |-> sender,
              intermediary |-> intermediary, covered |-> TRUE]
        ELSE LET half == CeilHalf(commision)
                 r2 == CASE strategy = "Recipient" -> decrease(recipient, commision)
                         [] strategy = "RecipientAndSender" -> decrease(recipient, half)
                         [] OTHER -> recipient
                 s2 == CASE strategy = "Sender" -> decrease(sender, commision)
                         [] strategy = "RecipientAndSender" -> decrease(sender, half)
                         [] OTHER -> sender
                 i2 == CASE strategy = "Recipient" -> increase(intermediary, commision)
                         [] strategy = "Sender" -> increase(intermediary, commision)
                         [] strategy = "RecipientAndSender" ->
                              increase(increase(intermediary, half), half)
                         [] OTHER -> intermediary
                 covered ==
                     CASE strategy = "Recipient" -> recipient.balance >= commision
                       [] strategy = "Sender" -> sender.balance >= commision
                       [] strategy = "RecipientAndSender" ->
                            recipient.balance >= half /\ sender.balance >= half
                       [] OTHER -> TRUE
             IN  [ok |-> TRUE,
                  view |-> put(put(put(view, r2), s2), i2),
                  recipient |-> r2, sender |-> s2, intermediary |-> i2,
                  covered |-> covered]

\* --------------------------------------------------------- fee calculation
RECURSIVE SortedSeq(_)
SortedSeq(S) ==
    IF S = {} THEN <<>>
    ELSE LET m == CHOOSE x \in S : \A y \in S : x <= y
         IN  <<m>> \o SortedSeq(S \ {m})

\* Royalty owed per creator for a bundle of assets changing hands: one
\* (creator wallet, fee) entry per distinct creator, in key order; the wallet
\* is the creator's stored wallet at the time of the calculation.
assets_fees(view, creators, bundle) ==
    LET involved == {creators[a] : a \in {x \in AssetIDs : bundle[x] > 0}}
        owed(k) == SumOver([a \in AssetIDs |->
                              IF creators[a] = k THEN RoyaltyPerUnit * bundle[a] ELSE 0],
                           AssetIDs)
        order == SortedSeq(involved)
    IN  [i \in 1..Len(order) |-> [creator |-> wallet(view, order[i]), fee |-> owed(order[i])]]

\* calculate_fee_for_exchange / calculate_fees_for_trade
calculate_fee(view, creators, bundle) ==
    [transaction_fee |-> TradeExchangeTxFee,
     assets_fees |-> assets_fees(view, creators, bundle)]

ConcatBundles(b1, b2) == [a \in AssetIDs |-> b1[a] + b2[a]]

\* The one element of a singleton set.  Only({F(x) : x \in {e}}) evaluates e
\* once and names its value x in F.
Only(S) == CHOOSE x \in S : TRUE

\* The funds/asset check failed, and the failure path forgets the rollback.
exchange_check_abort_no_rollback(view) == view

\* Lines 115-117: the funds/asset check failed: view.rollback(); return Fail.
exchange_check_abort(view) == rollback(view)

\* A royalty payment failed, and the failure path forgets the rollback:
\* best-effort royalties.
exchange_royalty_abort_no_rollback(view) == view

\* Lines 136-137: a royalty payment failed: view.rollback(); return Fail.
exchange_royalty_abort(view) == rollback(view)

\* The outcome of process: the view it leaves, the status it returns, and a
\* record of the run: the step that failed ("none" on success), the steps
\* taken in order, the wallet table at the checkpoint, whether a checkpoint
\* and a rollback happened, whether every debit was covered, and the number of
\* set_status calls made.
Outcome(view, status, failed, trace, at_checkpoint, rolled_back, covered) ==
    [view |-> view, status |-> status, failed |-> failed, trace |-> trace,
     at_checkpoint |-> at_checkpoint, checkpointed |-> at_checkpoint # NoSavepoint,
     rolled_back |-> rolled_back, covered |-> covered, status_writes |-> 0]

\* Lines 124-139: the royalty loop over fee.assets_fees(), from entry i on;
\* m is the result of the move_coins call for entry i.
RECURSIVE exchange_pay_creators(_, _, _, _, _, _, _)
RECURSIVE exchange_paid_creator(_, _, _, _)
exchange_paid_creator(m, strategy, fees, i) ==
    IF ~m.ok
    THEN [ok |-> FALSE, view |-> m.view, recipient |-> m.recipient,
          sender |-> m.sender, intermediary |-> m.intermediary,
          covered |-> TRUE, trace |-> <<"royalty">>]
    ELSE Only({[rest EXCEPT !.covered = m.covered /\ @, !.trace = <<"royalty">> \o @] :
               rest \in {exchange_pay_creators(m.view, strategy, m.recipient, m.sender,
                                               m.intermediary, fees, i + 1)}})

exchange_pay_creators(view, strategy, recipient, sender, intermediary, fees, i) ==
    IF i > Len(fees)
    THEN [ok |-> TRUE, view |-> view, recipient |-> recipient, sender |-> sender,
          intermediary |-> intermediary, covered |-> TRUE, trace |-> <<>>]
    ELSE Only({exchange_paid_creator(m, strategy, fees, i) :
               m \in {move_coins(view, strategy, recipient, sender, intermediary,
                                 fees[i].creator, fees[i].fee)}})

\* Lines 141-159: the principal exchange and the final store; p is the result
\* of the royalty loop, cp the wallet table at the checkpoint.
exchange_principals(offer, cp, p, tr, covered) ==
    LET s3 == add_assets(del_assets(decrease(p.sender, offer.sender_value),
                                    offer.sender_assets),
                         offer.recipient_assets)
        r2 == add_assets(increase(p.recipient, offer.sender_value), offer.sender_assets)
        r3 == del_assets(r2, offer.recipient_assets)
        debit_ok == /\ p.sender.balance >= offer.sender_value
                    /\ is_assets_in_wallet(p.sender, offer.sender_assets)
                    /\ is_assets_in_wallet(r2, offer.recipient_assets)
    IN  Outcome(put(put(p.view, s3), r3), "Success", "none", tr \o <<"exchange">>,
                cp, FALSE, covered /\ debit_ok)

\* Lines 124-139, after the loop: p is its result.
exchange_royalties(offer, cp, p, covered) ==
    IF ~p.ok
    THEN Outcome(exchange_royalty_abort(p.view), "Fail", "royalty",
                 <<"fee", "checkpoint", "commission", "check">> \o p.trace,
                 cp, TRUE, covered /\ p.covered)
    ELSE exchange_principals(offer, cp, p,
                             <<"fee", "checkpoint", "commission", "check">> \o p.trace,
                             covered /\ p.covered)

\* Lines 109-139: the funds/asset check, then the royalty loop; c is the
\* result of pay_commision.
exchange_check(offer, fee, cp, c, covered) ==
    LET recipient_assets_ok == is_assets_in_wallet(c.recipient, offer.recipient_assets)
        sender_assets_ok == is_assets_in_wallet(c.sender, offer.sender_assets)
        sender_value_ok == c.sender.balance >= offer.sender_value
    IN  IF ~recipient_assets_ok \/ ~sender_assets_ok \/ ~sender_value_ok
        THEN Outcome(exchange_check_abort(c.view), "Fail", "check",
                     <<"fee", "checkpoint", "commission", "check">>, cp, TRUE, covered)
        ELSE Only({exchange_royalties(offer, cp, p, covered) :
                   p \in {exchange_pay_creators(c.view, offer.fee_strategy, c.recipient,
                                                c.sender, c.intermediary,
                                                fee.assets_fees, 1)}})

\* Lines 96-107, after pay_commision: c is its result.
exchange_commision_paid(offer, fee, cp, c, covered) ==
    IF ~c.ok
    THEN Outcome(rollback(c.view), "Fail", "commission",
                 <<"fee", "checkpoint", "commission">>, cp, TRUE, covered)
    ELSE exchange_check(offer, fee, cp, c, covered /\ c.covered)

\* process without the view.checkpoint() of line 94: a later rollback goes
\* back to whatever checkpoint the view still holds.
exchange_fee_paid_no_checkpoint(offer, fee, m1) ==
    IF ~m1.ok
    THEN Outcome(m1.view, "Fail", "fee", <<"fee">>, NoSavepoint, FALSE, TRUE)
    ELSE Only({exchange_commision_paid(offer, fee, v1.wallets, c, m1.covered) :
               <<v1, c>> \in
                 {<<v, pay_commision(v, offer.fee_strategy, m1.recipient, m1.sender,
                                     m1.intermediary, offer.commision)>> :
                  v \in {m1.view}}})

\* Lines 80-107: m1 is the result of the move_coins call that pays the
\* transaction fee; v1 is the view after view.checkpoint().
exchange_fee_paid(offer, fee, m1) ==
    IF ~m1.ok
    THEN Outcome(m1.view, "Fail", "fee", <<"fee">>, NoSavepoint, FALSE, TRUE)
    ELSE Only({exchange_commision_paid(offer, fee, v1.wallets, c, m1.covered) :
               <<v1, c>> \in
                 {<<v, pay_commision(v, offer.fee_strategy, m1.recipient, m1.sender,
                                     m1.intermediary, offer.commision)>> :
                  v \in {checkpoint(m1.view)}}})

\* Lines 80-91: the transaction fee goes to the platform.
exchange_pay_fee(view, offer, fee) ==
    Only({exchange_fee_paid(offer, fee, m1) :
          m1 \in {move_coins(view, offer.fee_strategy,
                             wallet(view, offer.recipient), wallet(view, offer.sender),
                             wallet(view, offer.intermediary), wallet(view, PlatformKey),
                             fee.transaction_fee)}})

\* TxExchangeWithIntermediary::process
exchange_process(view, creators, offer) ==
    Only({exchange_pay_fee(view, offer, fee) :
          fee \in {calculate_fee(view, creators,
                                 ConcatBundles(offer.sender_assets,
                                               offer.recipient_assets))}})

\* ------------------------------------------------------------- utils.rs
\* utils::pay: the single-payer form of move_coins.
pay(view, from, to, coins) ==
    IF from.balance < coins
    THEN [ok |-> FALSE, view |-> view, from |-> from, to |-> to]
    ELSE [ok |-> TRUE,
          view |-> put(put(view, decrease(from, coins)), increase(to, coins)),
          from |-> decrease(from, coins), to |-> increase(to, coins)]

\* utils::transfer_assets
transfer_assets(view, from, to, bundle) ==
    IF ~is_assets_in_wallet(from, bundle)
    THEN [ok |-> FALSE, view |-> view, from |-> from, to |-> to]
    ELSE [ok |-> TRUE,
          view |-> put(put(view, del_assets(from, bundle)), add_assets(to, bundle)),
          from |-> del_assets(from, bundle), to |-> add_assets(to, bundle)]

\* ----------------------------------------- trade_assets_with_intermediary.rs
\* offer.assets is a function AssetIDs -> [amount, price] (Vec<TradeAsset>).
\* TradeOfferWithIntermediary::total_price
total_price(offer) ==
    SumOver([a \in AssetIDs |-> offer.assets[a].amount * offer.assets[a].price],
            AssetIDs) % Modulus

\* TradeAsset -> Asset (lines 96-100)
TradeBundle(offer) == [a \in AssetIDs |-> offer.assets[a].amount]

TradeSteps == <<"fee", "checkpoint", "commission", "check">>

\* Lines 118-124: the royalty loop, from entry i on; p is the result of the
\* pay call for entry i.
RECURSIVE trade_pay_creators(_, _, _, _)
RECURSIVE trade_paid_creator(_, _, _)
trade_paid_creator(p, fees, i) ==
    IF ~p.ok
    THEN [ok |-> FALSE, view |-> p.view, seller |-> p.from, trace |-> <<"royalty">>]
    ELSE Only({[rest EXCEPT !.trace = <<"royalty">> \o @] :
               rest \in {trade_pay_creators(p.view, p.from, fees, i + 1)}})

trade_pay_creators(view, seller, fees, i) ==
    IF i > Len(fees)
    THEN [ok |-> TRUE, view |-> view, seller |-> seller, trace |-> <<>>]
    ELSE Only({trade_paid_creator(p, fees, i) :
               p \in {pay(view, seller, fees[i].creator, fees[i].fee)}})

\* Lines 118-126, after the loop: r is its result.
trade_royalties(cp, r) ==
    IF ~r.ok
    THEN Outcome(rollback(r.view), "Fail", "royalty",
                 TradeSteps \o <<"exchange">> \o r.trace, cp, TRUE, TRUE)
    ELSE Outcome(r.view, "Success", "none",
                 TradeSteps \o <<"exchange">> \o r.trace, cp, FALSE, TRUE)

\* Lines 113-124: t is the result of transfer_assets(seller -> buyer).
trade_assets_moved(fee, cp, t) ==
    IF ~t.ok
    THEN Outcome(rollback(t.view), "Fail", "check", TradeSteps, cp, TRUE, TRUE)
    ELSE Only({trade_royalties(cp, r) :
               r \in {trade_pay_creators(t.view, t.from, fee.assets_fees, 1)}})

\* Lines 107-116: p3 is the result of pay(buyer -> seller, offer_price).
trade_price_paid(offer, fee, cp, p3) ==
    IF ~p3.ok
    THEN Outcome(rollback(p3.view), "Fail", "check", TradeSteps, cp, TRUE, TRUE)
    ELSE Only({trade_assets_moved(fee, cp, t) :
               t \in {transfer_assets(p3.view, p3.to, p3.from, TradeBundle(offer))}})

\* Lines 84-111: p2 is the result of pay(seller -> intermediary, commision);
\* buyer is the wallet loaded at line 68.
trade_commision_paid(offer, fee, cp, buyer, p2) ==
    IF ~p2.ok
    THEN Outcome(rollback(p2.view), "Fail", "commission",
                 <<"fee", "checkpoint", "commission">>, cp, TRUE, TRUE)
    ELSE Only({trade_price_paid(offer, fee, cp, p3) :
               p3 \in {pay(p2.view, buyer, p2.from, total_price(offer))}})

\* Lines 76-93: p1 is the result of pay(seller -> platform, transaction fee);
\* buyer and intermediary are the wallets loaded at lines 68 and 70.
trade_fee_paid(offer, fee, buyer, intermediary, p1) ==
    IF ~p1.ok
    THEN Outcome(p1.view, "Fail", "fee", <<"fee">>, NoSavepoint, FALSE, TRUE)
    ELSE Only({trade_commision_paid(offer, fee, v1.wallets, buyer, p2) :
               <<v1, p2>> \in
                 {<<v, pay(v, p1.from, intermediary, offer.commision)>> :
                  v \in {checkpoint(p1.view)}}})

\* Lines 74-79: the transaction fee goes from the seller to the platform.
trade_pay_fee(view, offer, fee) ==
    Only({trade_fee_paid(offer, fee, wallet(view, offer.buyer),
                         wallet(view, offer.intermediary), p1) :
          p1 \in {pay(view, wallet(view, offer.seller), wallet(view, PlatformKey),
                      fee.transaction_fee)}})

\* TxTradeWithIntermediary::process
trade_process(view, creators, offer) ==
    Only({trade_pay_fee(view, offer, fee) :
          fee \in {calculate_fee(view, creators, TradeBundle(offer))}})

\* ------------------------------------------------------------ transfer.rs
\* TxTransfer::get_fee
get_fee(tx) == WrapAdd(TRANSACTION_FEE, (PER_ASSET_FEE * AssetCount(tx.assets)) % Modulus)

\* Lines 45-62: the sender wallet exists.
transfer_from(view, tx, sender) ==
    LET amount == tx.amount
        update_amount ==
            \/ amount = 0 /\ sender.balance >= get_fee(tx)
            \/ amount > 0 /\ sender.balance >= WrapAdd(amount, get_fee(tx))
        update_assets ==
            \/ IsEmptyBundle(tx.assets)
            \/ ~IsEmptyBundle(tx.assets) /\ is_assets_in_wallet(sender, tx.assets)
    IN  IF update_amount /\ update_assets
        THEN LET s2 == del_assets(decrease(sender, WrapAdd(amount, get_fee(tx))),
                                  tx.assets)
                 r2 == add_assets(increase(create_wallet(view, tx.to), amount),
                                  tx.assets)
             IN  Outcome([view EXCEPT !.wallets[tx.from] = s2, !.wallets[tx.to] = r2],
                         "Success", "none", <<"check", "exchange">>,
                         NoSavepoint, FALSE,
                         sender.balance >= WrapAdd(amount, get_fee(tx))
                           /\ is_assets_in_wallet(sender, tx.assets))
        ELSE Outcome(view, "Fail", "check", <<"check">>, NoSavepoint, FALSE, TRUE)

\* TxTransfer::execute, lines 42-63: everything before the status write.
transfer_process(view, tx) ==
    IF view.wallets[tx.from] = NoWallet
    THEN Outcome(view, "Fail", "check", <<"check">>, NoSavepoint, FALSE, TRUE)
    ELSE transfer_from(view, tx, view.wallets[tx.from])

\* ------------------------------------------------------------------- info
\* TxTransfer::info (lines 70-75)
transfer_info(tx) == [transaction_data |-> tx, tx_fee |-> get_fee(tx)]

\* TxExchangeWithIntermediary::info (lines 197-201)
exchange_info(tx) == [transaction_data |-> tx]

\* TxTradeWithIntermediary::info (lines 165-169)
trade_info(tx) == [transaction_data |-> tx]

\* ---------------------------------------------------------------- execute
\* Line 194 / 160-162 / 64-67: the status write that ends execute.
record_status(o, hash) ==
    [o EXCEPT !.view = set_status(o.view, hash, o.status), !.status_writes = @ + 1]

\* execute with the status written before process returns, inside the
\* region a rollback undoes: the rollback removes the entry.
exchange_execute_status_before_rollback(view, creators, offer, hash) ==
    Only({IF o.rolled_back THEN [o EXCEPT !.status_writes = @ + 1]
          ELSE record_status(o, hash) :
          o \in {exchange_process(view, creators, offer)}})

\* TxExchangeWithIntermediary::execute
exchange_execute(view, creators, offer, hash) ==
    Only({record_status(o, hash) : o \in {exchange_process(view, creators, offer)}})

\* TxTradeWithIntermediary::execute
trade_execute(view, creators, offer, hash) ==
    Only({record_status(o, hash) : o \in {trade_process(view, creators, offer)}})

\* TxTransfer::execute
transfer_execute(view, tx, hash) ==
    Only({record_status(o, hash) : o \in {transfer_process(view, tx)}})

\* ------------------------------------------------------------------ inputs
Commisions == {0, 3}
SenderValues == {0, 2}
Prices == {0, 2}
TransferAmounts == {0, 1, Modulus - 1}

Units(a1, a2) == [a \in AssetIDs |-> IF a = 1 THEN a1 ELSE a2]

\* verify that compares the two principals only.
exchange_verify_principals_only(offer) ==
    /\ offer.sender # offer.recipient
    /\ offer.fee_strategy \in FeeStrategies

\* TxExchangeWithIntermediary::verify, the identity part (lines 169-173).
exchange_verify(offer) ==
    /\ offer.sender # offer.recipient
    /\ offer.sender # offer.intermediary
    /\ offer.recipient # offer.intermediary
    /\ offer.fee_strategy \in FeeStrategies

\* TxTradeWithIntermediary::verify, the identity part (lines 136-138).
trade_verify(offer) ==
    /\ offer.seller # offer.buyer
    /\ offer.seller # offer.intermediary
    /\ offer.buyer # offer.intermediary

\* TxTransfer::verify, the identity part (line 38).
transfer_verify(tx) == tx.from # tx.to

ExchangeOffers ==
    {o \in [sender : Givers, recipient : Takers, intermediary : Brokers,
            commision : Commisions, sender_value : SenderValues,
            sender_assets : {Units(0, 0), Units(1, 0)},
            recipient_assets : {Units(0, 0), Units(0, 1)},
            fee_strategy : FeeStrategies] : exchange_verify(o)}

TradeOffers ==
    {o \in [buyer : Takers, seller : Givers, intermediary : Brokers,
            commision : Commisions,
            assets : {[a \in AssetIDs |-> [amount |-> Units(u1, u2)[a], price |-> p]] :
                        u1 \in {0, 1}, u2 \in {0, 1}, p \in Prices}] : trade_verify(o)}

Transfers ==
    {t \in [from : Principals, to : Principals \cup {5}, amount : TransferAmounts,
            assets : {Units(0, 0), Units(1, 0), Units(0, 1)}] : transfer_verify(t)}

\* ------------------------------------------------------------------- state
VARIABLES
    wallets,     \* wallet table of the view: key -> wallet or NoWallet
    tx_status,   \* status table of the view: hash -> status or NoStatus
    savepoint,   \* the view's most recent checkpoint, NoSavepoint when none
    creators,    \* asset metadata: asset id -> creator key
    executed,    \* number of execute calls so far; the next hash is executed + 1
    writes,      \* hash -> number of set_status calls made for it
    exec         \* record of the latest execute call, NoExec before the first

vars == <<wallets, tx_status, savepoint, creators, executed, writes, exec>>

NoExec == [kind |-> "none"]

InitWallets ==
    {[k \in Keys |->
        CASE k = PlatformKey -> NewWallet(k, 0, NoAssets)
          [] k = 2 -> NewWallet(k, b2, Units(1, 0))
          [] k = 3 -> w3
          [] k = 4 -> NewWallet(k, b4, NoAssets)
          [] OTHER -> NoWallet] :
     b2 \in {2, 8}, w3 \in {NoWallet, NewWallet(3, 8, Units(0, 1))}, b4 \in {0, 4}}

Init ==
    /\ wallets \in InitWallets
    /\ tx_status = [h \in Hashes |-> NoStatus]
    /\ savepoint = NoSavepoint
    /\ creators \in {[a \in AssetIDs |-> IF a = 1 THEN c ELSE 5] : c \in Keys}
    /\ executed = 0
    /\ writes = [h \in Hashes |-> 0]
    /\ exec = NoExec

View == [wallets |-> wallets, tx_status |-> tx_status, savepoint |-> savepoint]

\* The handler reaches a step at which it panics instead of returning: the
\* unwrap of line 77 on a fee-strategy byte that decodes to None, in every
\* build; the u64 addition amount + get_fee() of transfer.rs line 47, in a
\* build with overflow checks (without them the sum wraps, as modelled).
Aborts(kind, tx) ==
    CASE kind = "exchange" -> tx.fee_strategy \notin FeeStrategies
      [] kind = "transfer" ->
            /\ wallets[tx.from] # NoWallet
            /\ tx.amount > 0
            /\ tx.amount + TRANSACTION_FEE + PER_ASSET_FEE * AssetCount(tx.assets)
                  >= Modulus
      [] OTHER -> FALSE

\* The common tail of the three execute actions: install the view the
\* handler left and record the run.
Finish(kind, tx, hash, o, fee) ==
    /\ wallets' = o.view.wallets
    /\ tx_status' = o.view.tx_status
    /\ savepoint' = o.view.savepoint
    /\ executed' = executed + 1
    /\ writes' = [writes EXCEPT ![hash] = @ + o.status_writes]
    /\ exec' = [kind |-> kind, tx |-> tx, hash |-> hash, pre |-> wallets,
                fee |-> fee, status |-> o.status, failed |-> o.failed,
                trace |-> o.trace, at_checkpoint |-> o.at_checkpoint,
                checkpointed |-> o.checkpointed, rolled_back |-> o.rolled_back,
                covered |-> o.covered, pre_status |-> tx_status,
                aborts |-> Aborts(kind, tx)]
    /\ UNCHANGED creators

ExecuteExchange ==
    \E offer \in ExchangeOffers :
        /\ executed < MaxTxs
        /\ \E o \in {exchange_execute(View, creators, offer, executed + 1)},
              fee \in {calculate_fee(View, creators,
                           ConcatBundles(offer.sender_assets, offer.recipient_assets))} :
              Finish("exchange", offer, executed + 1, o, fee)

ExecuteTrade ==
    \E offer \in TradeOffers :
        /\ executed < MaxTxs
        /\ \E o \in {trade_execute(View, creators, offer, executed + 1)},
              fee \in {calculate_fee(View, creators, TradeBundle(offer))} :
              Finish("trade", offer, executed + 1, o, fee)

ExecuteTransfer ==
    \E tx \in Transfers :
        /\ executed < MaxTxs
        /\ \E o \in {transfer_execute(View, tx, executed + 1)} :
              Finish("transfer", tx, executed + 1, o,
                     [transaction_fee |-> get_fee(tx), assets_fees |-> <<>>])

Next == ExecuteExchange \/ ExecuteTrade \/ ExecuteTransfer

Spec == Init /\ [][Next]_vars

\* ============================================================ properties
\* What a reader of the wallet table sees under key k: an absent wallet reads
\* as an empty one.
Stored(ws, k) == IF ws[k] = NoWallet THEN NewWallet(k, 0, NoAssets) ELSE ws[k]

TotalCoins(ws) == SumOver([k \in Keys |-> Stored(ws, k).balance], Keys)

TotalAsset(ws, a) == SumOver([k \in Keys |-> Stored(ws, k).assets[a]], Keys)

Ran(kind) == exec.kind = kind

RanAny == exec.kind # "none"

\* The transaction fee of the latest execution and the part of it that key k
\* pays, as the fee step distributes it.
LastTxFee == exec.fee.transaction_fee

FeeShare(k) ==
    IF Ran("trade") THEN (IF k = exec.tx.seller THEN LastTxFee ELSE 0)
    ELSE IF Ran("exchange") THEN
        CASE exec.tx.fee_strategy = "Recipient" ->
                IF k = exec.tx.recipient THEN LastTxFee ELSE 0
          [] exec.tx.fee_strategy = "Sender" ->
                IF k = exec.tx.sender THEN LastTxFee ELSE 0
          [] exec.tx.fee_strategy = "RecipientAndSender" ->
                IF k = exec.tx.recipient THEN (LastTxFee + 1) \div 2
                ELSE IF k = exec.tx.sender THEN LastTxFee \div 2
                ELSE 0
          [] exec.tx.fee_strategy = "Intermediary" ->
                IF k = exec.tx.intermediary THEN LastTxFee ELSE 0
    ELSE 0

\* The wallet table differs from the pre-execution one by the fee step only.
OnlyFeeMoved(ws) ==
    \A k \in Keys :
        /\ Stored(ws, k).assets = Stored(exec.pre, k).assets
        /\ Stored(ws, k).balance =
              Stored(exec.pre, k).balance - FeeShare(k)
                + (IF k = PlatformKey THEN LastTxFee ELSE 0)

\* C1: executing a TxExchangeWithIntermediary leaves the sum of all stored
\* balances unchanged, whatever the strategy, the outcome and the wallets
\* the creators' keys name.
C1_ExchangeConservesCoins ==
    Ran("exchange") => TotalCoins(wallets) = TotalCoins(exec.pre)

\* C2: executing a TxTradeWithIntermediary leaves the sum of all stored
\* balances unchanged, also when a creator's key is the seller's, the
\* intermediary's or the platform's.
C2_TradeConservesCoins ==
    Ran("trade") => TotalCoins(wallets) = TotalCoins(exec.pre)

\* C3: a successful TxTransfer credits the platform wallet with the fee, so
\* that the sender's debit equals the recipient's credit plus the fee and the
\* sum of balances is unchanged.
C3_TransferPaysPlatform ==
    (Ran("transfer") /\ exec.status = "Success") =>
        /\ Stored(wallets, PlatformKey).balance =
              Stored(exec.pre, PlatformKey).balance + LastTxFee
        /\ TotalCoins(wallets) = TotalCoins(exec.pre)

\* C4: every execution, of any kind and outcome, leaves the total quantity
\* of every asset unchanged (hence so does every sequence of executions).
C4_AssetsConserved ==
    RanAny => \A a \in AssetIDs : TotalAsset(wallets, a) = TotalAsset(exec.pre, a)

\* C5: every debit of an execution is applied to a balance or holding that
\* covers it, so nothing is driven below zero.
C5_DebitsCovered == RanAny => exec.covered

\* C6: an exchange or trade that paid the transaction fee and then failed at
\* the commission or at the funds/asset check leaves the stored state equal
\* to the pre-execution state except for the fee: platform up by the fee,
\* payer(s) down by their share(s).
C6_RollbackBoundary ==
    ((Ran("exchange") \/ Ran("trade")) /\ exec.failed \in {"commission", "check"}) =>
        /\ exec.status = "Fail"
        /\ OnlyFeeMoved(wallets)

C6_Witness ==
    /\ Ran("exchange")
    /\ exec.failed = "check"
    /\ exec.tx.fee_strategy = "RecipientAndSender"
    /\ exec.tx.commision > 0
    /\ LastTxFee > 0
    /\ Stored(wallets, PlatformKey).balance = Stored(exec.pre, PlatformKey).balance + LastTxFee

\* C7: when a royalty payment fails, the transaction ends Fail and the stored
\* state holds none of the effects made after the checkpoint: it is the
\* state at the checkpoint, which differs from the pre-execution state by the
\* transaction fee only.
C7_RoyaltyAllOrNothing ==
    (RanAny /\ exec.failed = "royalty") =>
        /\ exec.status = "Fail"
        /\ tx_status[exec.hash] = "Fail"
        /\ wallets = exec.at_checkpoint
        /\ OnlyFeeMoved(wallets)

\* A royalty loop that paid one creator and failed at the next one.
C7_Witness ==
    /\ Ran("exchange")
    /\ exec.failed = "royalty"
    /\ exec.trace = <<"fee", "checkpoint", "commission", "check", "royalty", "royalty">>
    /\ exec.fee.assets_fees[1].fee > 0

\* C8: when the transaction-fee payment fails, execute records Fail, takes no
\* checkpoint, rolls nothing back and leaves every stored wallet as it was.
C8_FeeFailureLeavesState ==
    ((Ran("exchange") \/ Ran("trade")) /\ exec.failed = "fee") =>
        /\ tx_status[exec.hash] = "Fail"
        /\ ~exec.checkpointed
        /\ ~exec.rolled_back
        /\ wallets = exec.pre

C8_Witness ==
    /\ Ran("exchange")
    /\ exec.failed = "fee"
    /\ \E k \in Keys : exec.pre[k] = NoWallet /\ k \in {exec.tx.sender, exec.tx.recipient}

IndexOf(seq, x) == {i \in 1..Len(seq) : seq[i] = x}

\* C10: the steps run in the order fee, checkpoint, commission, check,
\* principal exchange, royalties: no royalty payment precedes the principal
\* exchange.
C10_StepOrder ==
    (Ran("exchange") \/ Ran("trade")) =>
        \A i \in IndexOf(exec.trace, "royalty") :
            \E j \in IndexOf(exec.trace, "exchange") : j < i

\* ============================================== the payment primitives
\* split_coins, sufficient_funds, move_coins and pay_commision called on their
\* own: the principals are the stored wallets of the sender, the recipient and
\* the intermediary, the coin receiver is the stored wallet of any key (the
\* platform, or the creator of an asset, who may be a party), and the amount is
\* any value of the coin type.
Coins == 0 .. Modulus - 1

PaymentWallets ==
    {[k \in Keys |->
        CASE k = PlatformKey -> NewWallet(k, 0, NoAssets)
          [] k = 2 -> NewWallet(k, b2, NoAssets)
          [] k = 3 -> NewWallet(k, b3, NoAssets)
          [] k = 4 -> NewWallet(k, b4, NoAssets)
          [] OTHER -> NoWallet] :
     b2 \in {0, 4, 8, 9}, b3 \in {0, 4, 9, 16}, b4 \in {0, 4, 17}}

InitPayments ==
    /\ wallets \in PaymentWallets
    /\ tx_status = [h \in Hashes |-> NoStatus]
    /\ savepoint = NoSavepoint
    /\ creators = [a \in AssetIDs |-> 5]
    /\ executed = 0
    /\ writes = [h \in Hashes |-> 0]
    /\ exec = NoExec

\* The wallets process loads for the three parties (lines 66-75).
LoadedSender == wallet(View, CHOOSE k \in Givers : TRUE)

LoadedRecipient == wallet(View, CHOOSE k \in Takers : TRUE)

LoadedIntermediary == wallet(View, CHOOSE k \in Brokers : TRUE)

CallSplitCoins ==
    \E coins \in Coins :
        /\ executed < MaxCalls
        /\ executed' = executed + 1
        /\ exec' = [kind |-> "split_coins", coins |-> coins, halves |-> split_coins(coins)]
        /\ UNCHANGED <<wallets, tx_status, savepoint, creators, writes>>

CallSufficientFunds ==
    \E strategy \in FeeStrategies, coins \in Coins :
        /\ executed < MaxCalls
        /\ executed' = executed + 1
        /\ exec' = [kind |-> "sufficient_funds", strategy |-> strategy, coins |-> coins,
                    recipient |-> LoadedRecipient, sender |-> LoadedSender,
                    intermediary |-> LoadedIntermediary,
                    result |-> sufficient_funds(strategy, LoadedRecipient, LoadedSender,
                                                LoadedIntermediary, coins)]
        /\ UNCHANGED <<wallets, tx_status, savepoint, creators, writes>>

CallMoveCoins ==
    \E strategy \in FeeStrategies, coins \in Coins, receiver \in Keys :
        /\ executed < MaxCalls
        /\ \E m \in {move_coins(View, strategy, LoadedRecipient, LoadedSender,
                                LoadedIntermediary, wallet(View, receiver), coins)} :
              /\ wallets' = m.view.wallets
              /\ exec' = [kind |-> "move_coins", strategy |-> strategy, coins |-> coins,
                          pre |-> wallets, ok |-> m.ok,
                          before |-> [recipient |-> LoadedRecipient,
                                      sender |-> LoadedSender,
                                      intermediary |-> LoadedIntermediary,
                                      coins_receiver |-> wallet(View, receiver)],
                          after |-> [recipient |-> m.recipient, sender |-> m.sender,
                                     intermediary |-> m.intermediary,
                                     coins_receiver |-> m.coins_receiver]]
        /\ executed' = executed + 1
        /\ UNCHANGED <<tx_status, savepoint, creators, writes>>

CallPayCommision ==
    \E strategy \in FeeStrategies, commision \in Coins :
        /\ executed < MaxCalls
        /\ \E c \in {pay_commision(View, strategy, LoadedRecipient, LoadedSender,
                                   LoadedIntermediary, commision)} :
              /\ wallets' = c.view.wallets
              /\ exec' = [kind |-> "pay_commision", strategy |-> strategy,
                          coins |-> commision, pre |-> wallets, ok |-> c.ok,
                          before |-> [recipient |-> LoadedRecipient,
                                      sender |-> LoadedSender,
                                      intermediary |-> LoadedIntermediary],
                          after |-> [recipient |-> c.recipient, sender |-> c.sender,
                                     intermediary |-> c.intermediary]]
        /\ executed' = executed + 1
        /\ UNCHANGED <<tx_status, savepoint, creators, writes>>

NextPayments ==
    CallSplitCoins \/ CallSufficientFunds \/ CallMoveCoins \/ CallPayCommision

SpecPayments == InitPayments /\ [][NextPayments]_vars

Called(kind) == exec.kind = kind

\* ceil(n / 2) and floor(n / 2) over the integers.
CeilOfHalf(n) == (n + 1) \div 2

FloorOfHalf(n) == n \div 2

\* C11: under RecipientAndSender a paid commission takes ceil(commission / 2)
\* from the recipient and the same from the sender and gives the intermediary
\* both halves: commission + 1 when the commission is odd, commission when it
\* is even; what is credited is what is debited.
C11_CommissionHalves ==
    (Called("pay_commision") /\ exec.strategy = "RecipientAndSender" /\ exec.ok) =>
        /\ exec.before.recipient.balance - exec.after.recipient.balance
              = CeilOfHalf(exec.coins)
        /\ exec.before.sender.balance - exec.after.sender.balance
              = CeilOfHalf(exec.coins)
        /\ WrapSub(exec.after.intermediary.balance, exec.before.intermediary.balance)
              = (exec.coins + (exec.coins % 2)) % Modulus

\* C12: split_coins(amount) = (a, b) has a + b = amount and a = ceil(amount / 2),
\* hence b = floor(amount / 2) and b <= a.
C12_SplitExact ==
    Called("split_coins") =>
        /\ exec.halves[1] + exec.halves[2] = exec.coins
        /\ exec.halves[1] = CeilOfHalf(exec.coins)
        /\ exec.halves[2] = FloorOfHalf(exec.coins)
        /\ exec.halves[2] <= exec.halves[1]

\* C13: sufficient_funds under RecipientAndSender is true exactly when both
\* halves of split_coins(amount) are at most the smaller of the two balances,
\* which rejects cases where each half fits its own payer; under Recipient,
\* Sender and Intermediary it is true exactly when that one balance is at least
\* the amount.
C13_SufficientFunds ==
    Called("sufficient_funds") =>
        LET smaller == Min(exec.recipient.balance, exec.sender.balance)
            halves == split_coins(exec.coins)
        IN  /\ exec.strategy = "RecipientAndSender" =>
                  /\ exec.result <=> (halves[1] <= smaller /\ halves[2] <= smaller)
                  /\ exec.result => /\ halves[1] <= exec.recipient.balance
                                    /\ halves[2] <= exec.sender.balance
            /\ exec.strategy = "Recipient" =>
                  (exec.result <=> exec.recipient.balance >= exec.coins)
            /\ exec.strategy = "Sender" =>
                  (exec.result <=> exec.sender.balance >= exec.coins)
            /\ exec.strategy = "Intermediary" =>
                  (exec.result <=> exec.intermediary.balance >= exec.coins)

\* A sender that holds floor(amount / 2) but less than ceil(amount / 2), next
\* to a recipient that holds the ceil half: rejected.
C13_Witness ==
    /\ Called("sufficient_funds")
    /\ exec.strategy = "RecipientAndSender"
    /\ exec.coins % 2 = 1
    /\ exec.recipient.balance >= split_coins(exec.coins)[1]
    /\ exec.sender.balance >= split_coins(exec.coins)[2]
    /\ exec.sender.balance < split_coins(exec.coins)[1]
    /\ ~exec.result

\* The share of an amount that the strategy takes from each principal.
ShareOf(strategy, who, coins) ==
    CASE strategy = "Recipient" -> IF who = "recipient" THEN coins ELSE 0
      [] strategy = "Sender" -> IF who = "sender" THEN coins ELSE 0
      [] strategy = "Intermediary" -> IF who = "intermediary" THEN coins ELSE 0
      [] strategy = "RecipientAndSender" ->
            IF who = "recipient" THEN CeilOfHalf(coins)
            ELSE IF who = "sender" THEN coins - CeilOfHalf(coins)
            ELSE 0

\* What a successful move_coins owes key k: the shares of the principals that
\* k names, and the amount when k names the receiver.
DebitOf(k) ==
    SumOver([who \in {"recipient", "sender", "intermediary"} |->
                IF exec.before[who].pub_key = k
                THEN ShareOf(exec.strategy, who, exec.coins) ELSE 0],
            {"recipient", "sender", "intermediary"})

CreditOf(k) == IF exec.before.coins_receiver.pub_key = k THEN exec.coins ELSE 0

\* C14: move_coins returns false and changes nothing, in memory or in storage,
\* when the funds do not suffice; when it returns true each payer is down by
\* its share (the ceil half from the recipient, the rest from the sender under
\* RecipientAndSender), the receiver is up by the amount, and storage holds
\* these decreases and this increase.
C14_MoveCoinsExact ==
    Called("move_coins") =>
        IF ~exec.ok
        THEN exec.after = exec.before /\ wallets = exec.pre
        ELSE /\ \A who \in {"recipient", "sender", "intermediary"} :
                    exec.after[who].balance =
                        exec.before[who].balance - ShareOf(exec.strategy, who, exec.coins)
             /\ exec.after.coins_receiver.balance =
                    WrapAdd(exec.before.coins_receiver.balance, exec.coins)
             /\ \A k \in Keys :
                    Stored(wallets, k).balance =
                        (Stored(exec.pre, k).balance - DebitOf(k) + CreditOf(k)) % Modulus

\* ============================================================== admission
\* verify called on submitted transactions: any keys for the parties, equal
\* ones included, any fee-strategy byte, each signature valid or not, and the
\* build with or without cfg(fuzzing).
Parties == Givers \cup Takers \cup Brokers

\* A fee_strategy byte that FeeStrategy::from_u8 maps to None.
UnknownStrategy == "Unknown"

\* TxExchangeWithIntermediary::verify
exchange_verify_tx(tx, fuzzing) ==
    IF fuzzing THEN FALSE
    ELSE /\ exchange_verify(tx.offer)
         /\ tx.recipient_signature_ok
         /\ tx.sender_signature_ok
         /\ tx.intermediary_signature_ok

\* TxTradeWithIntermediary::verify
trade_verify_tx(tx, fuzzing) ==
    IF fuzzing THEN FALSE
    ELSE /\ trade_verify(tx.offer)
         /\ tx.buyer_signature_ok
         /\ tx.seller_signature_ok
         /\ tx.intermediary_signature_ok

\* TxTransfer::verify
transfer_verify_tx(tx) == transfer_verify(tx) /\ tx.signature_ok

SubmittedExchanges ==
    [offer : [sender : Parties, recipient : Parties, intermediary : Parties,
              fee_strategy : FeeStrategies \cup {UnknownStrategy}],
     recipient_signature_ok : BOOLEAN, sender_signature_ok : BOOLEAN,
     intermediary_signature_ok : BOOLEAN]

SubmittedTrades ==
    [offer : [seller : Parties, buyer : Parties, intermediary : Parties],
     buyer_signature_ok : BOOLEAN, seller_signature_ok : BOOLEAN,
     intermediary_signature_ok : BOOLEAN]

SubmittedTransfers == [from : Parties, to : Parties, signature_ok : BOOLEAN]

InitAdmission ==
    /\ wallets = [k \in Keys |-> NoWallet]
    /\ tx_status = [h \in Hashes |-> NoStatus]
    /\ savepoint = NoSavepoint
    /\ creators = [a \in AssetIDs |-> 5]
    /\ executed = 0
    /\ writes = [h \in Hashes |-> 0]
    /\ exec = NoExec

\* verify returns a bool and touches no storage.
Verified(kind, tx, keys, signatures_ok, admitted) ==
    /\ executed < MaxCalls
    /\ executed' = executed + 1
    /\ exec' = [kind |-> kind, tx |-> tx, keys |-> keys,
                signatures_ok |-> signatures_ok, admitted |-> admitted]
    /\ UNCHANGED <<wallets, tx_status, savepoint, creators, writes>>

VerifyExchange ==
    \E tx \in SubmittedExchanges, fuzzing \in BOOLEAN :
        Verified("verify_exchange", tx,
                 <<tx.offer.sender, tx.offer.recipient, tx.offer.intermediary>>,
                 tx.recipient_signature_ok /\ tx.sender_signature_ok
                    /\ tx.intermediary_signature_ok,
                 exchange_verify_tx(tx, fuzzing))

VerifyTrade ==
    \E tx \in SubmittedTrades, fuzzing \in BOOLEAN :
        Verified("verify_trade", tx,
                 <<tx.offer.seller, tx.offer.buyer, tx.offer.intermediary>>,
                 tx.buyer_signature_ok /\ tx.seller_signature_ok
                    /\ tx.intermediary_signature_ok,
                 trade_verify_tx(tx, fuzzing))

VerifyTransfer ==
    \E tx \in SubmittedTransfers :
        Verified("verify_transfer", tx, <<tx.from, tx.to>>, tx.signature_ok,
                 transfer_verify_tx(tx))

NextAdmission == VerifyExchange \/ VerifyTrade \/ VerifyTransfer

SpecAdmission == InitAdmission /\ [][NextAdmission]_vars

VerifyKinds == {"verify_exchange", "verify_trade", "verify_transfer"}

\* Two of the parties of the verified transaction are the same key.
SharedKey == \E i, j \in DOMAIN exec.keys : i # j /\ exec.keys[i] = exec.keys[j]

\* C15: verify rejects a transaction in which two parties are the same key,
\* whatever the signatures; an admitted transaction passed every check:
\* distinct parties, valid signatures, and for an exchange a known fee
\* strategy.
C15_AdmissionRejectsSharedKeys ==
    exec.kind \in VerifyKinds =>
        /\ SharedKey => ~exec.admitted
        /\ exec.admitted =>
              /\ ~SharedKey
              /\ exec.signatures_ok
              /\ Called("verify_exchange") => exec.tx.offer.fee_strategy \in FeeStrategies

\* An exchange whose recipient is also its intermediary, with every signature
\* valid and a known strategy: rejected.
C15_Witness ==
    /\ Called("verify_exchange")
    /\ exec.tx.offer.recipient = exec.tx.offer.intermediary
    /\ exec.tx.offer.sender # exec.tx.offer.recipient
    /\ exec.tx.offer.fee_strategy \in FeeStrategies
    /\ exec.signatures_ok
    /\ ~exec.admitted

\* ================================================= transfers and rollbacks
\* The fee of the executed transfer over the integers.
TransferFee == TRANSACTION_FEE + PER_ASSET_FEE * AssetCount(exec.tx.assets)

\* The executed transfer found its sender wallet, with every listed asset in
\* sufficient quantity and a balance of at least amount + fee.
TransferFunded ==
    /\ exec.pre[exec.tx.from] # NoWallet
    /\ is_assets_in_wallet(exec.pre[exec.tx.from], exec.tx.assets)
    /\ exec.pre[exec.tx.from].balance >= exec.tx.amount + TransferFee

\* C16: a transfer whose sender exists, holds the listed assets and has at
\* least amount + fee ends Success under its hash; the sender is down by
\* amount + fee and by each listed asset, the recipient (an empty wallet if it
\* did not exist) is up by the amount and by each listed asset, and no other
\* wallet changes.
C16_TransferPostState ==
    (Ran("transfer") /\ TransferFunded) =>
        /\ exec.status = "Success"
        /\ tx_status[exec.hash] = "Success"
        /\ wallets[exec.tx.from].balance =
              exec.pre[exec.tx.from].balance - (exec.tx.amount + TransferFee)
        /\ wallets[exec.tx.to] # NoWallet
        /\ wallets[exec.tx.to].balance =
              Stored(exec.pre, exec.tx.to).balance + exec.tx.amount
        /\ \A a \in AssetIDs :
              /\ wallets[exec.tx.from].assets[a] =
                    exec.pre[exec.tx.from].assets[a] - exec.tx.assets[a]
              /\ wallets[exec.tx.to].assets[a] =
                    Stored(exec.pre, exec.tx.to).assets[a] + exec.tx.assets[a]
        /\ \A k \in Keys \ {exec.tx.from, exec.tx.to} : wallets[k] = exec.pre[k]

\* C17: when an execution rolls back, what the earlier executions left is
\* still in storage: their status entries are as they were, and the wallet
\* table is the one this execution found, changed by this execution's own fee
\* step and nothing else.
C17_RollbackKeepsEarlier ==
    (RanAny /\ exec.rolled_back) =>
        /\ \A h \in Hashes :
              h < exec.hash => tx_status[h] = exec.pre_status[h] /\ tx_status[h] # NoStatus
        /\ wallets = exec.at_checkpoint
        /\ OnlyFeeMoved(wallets)

\* A second execution that rolls back after a first one that paid its fee to
\* the platform, took its checkpoint and ended Success.
C17_Witness ==
    /\ executed = MaxTxs
    /\ exec.hash > 1
    /\ exec.rolled_back
    /\ exec.pre_status[1] = "Success"
    /\ Stored(exec.pre, PlatformKey).balance > 0
    /\ tx_status[1] = "Success"

\* C18: every execution of an admitted transaction returns with Success or
\* Fail recorded: no step of the handler panics.
C18_ExecuteNeverAborts ==
    RanAny =>
        /\ exec.status \in {"Success", "Fail"}
        /\ tx_status[exec.hash] = exec.status
        /\ ~exec.aborts

\* info of the executed transaction.
LastInfo ==
    CASE Ran("transfer") -> transfer_info(exec.tx)
      [] Ran("exchange") -> exchange_info(exec.tx)
      [] Ran("trade") -> trade_info(exec.tx)

\* C19: for every kind of transaction, info reports a fee, and it is the
\* transaction fee computed when the transaction executes.
C19_FeePreview ==
    RanAny =>
        /\ "tx_fee" \in DOMAIN LastInfo
        /\ LastInfo.tx_fee = LastTxFee

\* The executed transfer had no sender wallet, or a balance below amount + fee,
\* or not the listed assets.
TransferUnfunded ==
    \/ exec.pre[exec.tx.from] = NoWallet
    \/ exec.pre[exec.tx.from].balance < exec.tx.amount + TransferFee
    \/ ~is_assets_in_wallet(exec.pre[exec.tx.from], exec.tx.assets)

\* C20: a transfer whose sender is missing, or short of amount + fee, or
\* short of a listed asset ends Fail; a failed transfer leaves every wallet as
\* it was: no fee charged, no recipient wallet created.
C20_FailedTransferFrame ==
    Ran("transfer") =>
        /\ TransferUnfunded => exec.status = "Fail"
        /\ exec.status = "Fail" => wallets = exec.pre /\ tx_status[exec.hash] = "Fail"

\* C21: under FeeStrategy Intermediary the commission step returns true and
\* moves no coins, whatever the commission and the intermediary's balance: the
\* wallets it was given and every stored balance are as before the step.
C21_IntermediaryCommissionNoOp ==
    (Called("pay_commision") /\ exec.strategy = "Intermediary") =>
        /\ exec.ok
        /\ exec.after = exec.before
        /\ \A k \in Keys : Stored(wallets, k) = Stored(exec.pre, k)

\* A commission larger than the intermediary's balance: the funds check says
\* no, and the step succeeds all the same.
C21_Witness ==
    /\ Called("pay_commision")
    /\ exec.strategy = "Intermediary"
    /\ exec.coins > exec.before.intermediary.balance
    /\ exec.coins > 0
    /\ exec.ok

\* ------------------------------------------------------------ trade, C22
\* Royalty the executed trade owes key k.
RoyaltyTo(k) ==
    SumOver([i \in DOMAIN exec.fee.assets_fees |->
                IF exec.fee.assets_fees[i].creator.pub_key = k
                THEN exec.fee.assets_fees[i].fee ELSE 0],
            DOMAIN exec.fee.assets_fees)

TotalRoyalty == SumOver([k \in Keys |-> RoyaltyTo(k)], Keys)

\* No creator of a traded asset is the buyer or the seller (the platform and
\* the intermediary are other keys by construction).
TradeRolesApart ==
    \A i \in DOMAIN exec.fee.assets_fees :
        exec.fee.assets_fees[i].creator.pub_key \notin {exec.tx.buyer, exec.tx.seller}

\* What a successful trade moves to key k, summed over the roles k holds.
TradeDelta(k) ==
    (IF k = exec.tx.buyer THEN 0 - total_price(exec.tx) ELSE 0)
    + (IF k = exec.tx.seller
       THEN total_price(exec.tx) - (LastTxFee + exec.tx.commision + TotalRoyalty)
       ELSE 0)
    + (IF k = PlatformKey THEN LastTxFee ELSE 0)
    + (IF k = exec.tx.intermediary THEN exec.tx.commision ELSE 0)
    + RoyaltyTo(k)

\* C22: after a Success trade in which no creator is the buyer or the seller,
\* the buyer is down by the total price and up by the traded assets, the
\* seller is up by the total price less fee, commission and royalties and down
\* by the traded assets, the platform is up by the fee, the intermediary by
\* the commission and each creator by its royalty.
C22_TradePostState ==
    (Ran("trade") /\ exec.status = "Success" /\ TradeRolesApart) =>
        /\ \A k \in Keys :
              Stored(wallets, k).balance = Stored(exec.pre, k).balance + TradeDelta(k)
        /\ \A a \in AssetIDs :
              /\ Stored(wallets, exec.tx.buyer).assets[a] =
                    Stored(exec.pre, exec.tx.buyer).assets[a] + TradeBundle(exec.tx)[a]
              /\ Stored(wallets, exec.tx.seller).assets[a] =
                    Stored(exec.pre, exec.tx.seller).assets[a] - TradeBundle(exec.tx)[a]

\* C23: a transfer succeeds only if the sender's balance is at least
\* amount + fee over the integers, and then the sender pays amount + fee: never
\* less than what the recipient is credited.
C23_TransferFundsSound ==
    (Ran("transfer") /\ exec.status = "Success") =>
        /\ exec.pre[exec.tx.from].balance >= exec.tx.amount + TransferFee
        /\ exec.pre[exec.tx.from].balance - wallets[exec.tx.from].balance
              = exec.tx.amount + TransferFee

====
